---------------------------- MODULE Spec2Model ----------------------------
(***************************************************************************)
(* Model of rayleigh_benard_2d.py: the seeded initial noise (lines         *)
(* 103-107), the CFL step-size controller as configured at lines 120-133,  *)
(* the main loop with its try/except/finally (lines 136-155) and the       *)
(* rank-0 statistics report (lines 157-180), for one worker process of an  *)
(* SPMD run.                                                               *)
(*                                                                         *)
(* Units.  Step sizes and simulation time are integers in units of         *)
(* 1e-3/DtScale; wall-clock timestamps are integers in ticks of 600 s;     *)
(* frequencies are integers in units of 1/12.  A float quotient a/b is the *)
(* pair <<a, b>>; a pair with b = 0 is a non-finite value (inf or nan).    *)
(***************************************************************************)
EXTENDS Integers, Sequences, FiniteSets, TLC

VARIABLES
    rank,           \* domain.distributor.rank of this worker
    N_TOTAL_CPU,    \* domain.distributor.comm_cart.size
    niter_arg,      \* the value of --niter
    stop_iteration, \* solver.stop_iteration
    pc,             \* position of the worker in the script
    iteration,      \* solver.iteration
    sim_time,       \* solver.sim_time
    stored_dt,      \* the controller's own step size (CFL.stored_dt)
    max_global_freq,\* the globally reduced maximum frequency of the last compute_dt
    dt,             \* the script's variable dt
    first_loop,     \* the script's variable first_loop
    now,            \* the wall clock, as time.time() reads it
    initial_time,   \* the script's initial_time
    start_time,     \* the script's start_time: <<>> while the name is unbound
    end_time,       \* the script's end_time:   <<>> while the name is unbound
    exc,            \* the exception in flight, "none" when there is none
    loop_state,     \* Running, StoppedNormally or Failed
    log_string,     \* the last per-iteration record: <<iteration, sim_time, dt>>
    out,            \* the lines printed on standard output
    reported,       \* how many times the finally block ran to completion
    gshape,         \* global grid shape <<gx, gz>> of the noise array
    layout,         \* layout[run]: the cut points of run's partition along x
    noise           \* noise[run][r]: the local noise of worker r in run, <<>> before

vars == <<rank, N_TOTAL_CPU, niter_arg, stop_iteration, pc, iteration, sim_time,
          stored_dt, max_global_freq, dt, first_loop, now, initial_time,
          start_time, end_time, exc, loop_state, log_string, out, reported,
          gshape, layout, noise>>

loop_vars == <<rank, N_TOTAL_CPU, niter_arg, stop_iteration, pc, iteration,
               sim_time, stored_dt, max_global_freq, dt, first_loop, now,
               initial_time, start_time, end_time, exc, loop_state, log_string,
               out, reported>>

noise_vars == <<gshape, layout, noise>>

-----------------------------------------------------------------------------
(* Bounds of the model *)

\* --niter ranges over 0..MaxNiterArg
MaxNiterArg == 2
\* worker counts range over 1..MaxWorkers
MaxWorkers == 2
\* the wall clock advances by 0..MaxTick ticks during startup and during a step
MaxTick == 1
\* number of compute_dt calls followed in the controller-only specification
CFLMaxIter == 17
\* global noise shapes range over (1..MaxGx) x (1..MaxGz)
MaxGx == 3
MaxGz == 2

\* Step sizes are exact multiples of 1e-3/DtScale: every update multiplies the
\* denominator by at most 2 (min_change = 1/2, max_change = 3/2).
DtScale == 2 ^ CFLMaxIter

Min(a, b) == IF a <= b THEN a ELSE b
Max(a, b) == IF a >= b THEN a ELSE b
Abs(a) == IF a >= 0 THEN a ELSE 0 - a

-----------------------------------------------------------------------------
(* Command line and integration parameters *)

\* --nz [default: 128]
nz == 128
\* --aspect [default: 2]
aspect == 2
\* nx = nz*aspect when --nx is not given
nx == nz * aspect

\* niter without the iteration added for startup
niter_without_startup(n) == n

\* niter = int(float(args['--niter']))+1
niter(n) == n + 1

\* solver.stop_sim_time = 50, in seconds
stop_sim_time == 50
\* solver.stop_wall_time = 30 * 60. seconds, in clock ticks of 600 s
stop_wall_time == (30 * 60) \div 600

\* dt = 1e-3
initial_dt == DtScale
\* max_dt = 0.5
max_dt == 500 * DtScale

\* The controller configured with max_change=2.5
CFL_max_change_2_5 ==
    [initial_dt |-> initial_dt, cadence |-> 1, safety |-> <<2, 5>>,
     max_change |-> <<5, 2>>, min_change |-> <<1, 2>>, max_dt |-> max_dt,
     threshold |-> <<1, 20>>]

\* The controller configured with threshold=0.5
CFL_threshold_0_5 ==
    [initial_dt |-> initial_dt, cadence |-> 1, safety |-> <<2, 5>>,
     max_change |-> <<3, 2>>, min_change |-> <<1, 2>>, max_dt |-> max_dt,
     threshold |-> <<1, 2>>]

\* flow_tools.CFL(solver, initial_dt=dt, cadence=1, safety=0.8/2, max_change=1.5,
\*                min_change=0.5, max_dt=max_dt, threshold=0.05)
CFL == [initial_dt |-> initial_dt, cadence |-> 1, safety |-> <<2, 5>>,
        max_change |-> <<3, 2>>, min_change |-> <<1, 2>>, max_dt |-> max_dt,
        threshold |-> <<1, 20>>]

-----------------------------------------------------------------------------
(* StepSizeController: CFL.compute_dt *)

\* The globally reduced maximum frequencies the model draws, in units of 1/12:
\* 0 (no motion), 10 (candidate 0.48), 4800 (candidate 1e-3), 9600 (candidate
\* 0.5e-3) and a blow-up frequency whose candidate is one unit of DtScale.
Freqs == {0, 10, 4800, 9600, 4800 * DtScale}

\* Only T is perturbed before the loop (T['g'] = F * pert): u and w are zero
\* at the first compute_dt.
InitialFreqs == {0}

\* safety / global_max_ratio, the absolute maximum step size when nothing moves
raw_candidate(c, freq) ==
    IF freq = 0 THEN c.max_dt
    ELSE (c.safety[1] * (12000 \div c.safety[2]) * DtScale) \div freq

\* The step size compute_dt returns on iteration it, the controller holding
\* stored: cadence gate, clip to [0, max_dt], rate limit, threshold gate.
\* tie decides the case the threshold is met exactly.
compute_dt(c, stored, it, freq, tie) ==
    IF it % c.cadence # 0 THEN stored
    ELSE LET clipped == Min(raw_candidate(c, freq), c.max_dt)
             hi == (c.max_change[1] * stored) \div c.max_change[2]
             lo == (c.min_change[1] * stored) \div c.min_change[2]
             limited == Max(Min(clipped, hi), lo)
             change == Abs(limited - stored) * c.threshold[2]
             gate == c.threshold[1] * stored
         IN  IF change > gate \/ (tie /\ change = gate) THEN limited ELSE stored

-----------------------------------------------------------------------------
(* Solver: the "still running" predicate and the advance operation *)

\* solver.ok: no stop threshold reached
ok(it, st, wall, stop_it) ==
    ~ (\/ it >= stop_it
       \/ (st \div DtScale) >= stop_sim_time * 1000
       \/ wall >= stop_wall_time)

\* The step sizes solver.step(requested) may return: the requested one, or a
\* clipped one.
actual_dts(requested) == {requested, requested \div 2}

-----------------------------------------------------------------------------
(* RunStatsReporter: the body of "if (domain.distributor.rank==0):" *)

\* One printed line: its label and its numeric fields, each a quotient.
Line(label, fields) == [label |-> label, fields |-> fields]

\* The labels of the report's lines
ReportLabels == {"startup time", "main loop time", "total time", "iterations",
                 "loop sec/iter", "average dt", "scaling"}

\* The quotient printed as ' loop sec/iter:'
loop_sec_per_iter(main_loop_time, it) == <<main_loop_time, it>>

\* The lines printed up to and including ' loop sec/iter:'
report_head(t0, t1, t2, it) ==
    << Line("rule", <<>>),
       Line("startup time", << <<t1 - t0, 1>> >>),
       Line("main loop time", << <<t2 - t1, 1>> >>),
       Line("total time", << <<t2 - t0, 1>> >>),
       Line("iterations", << <<it, 1>> >>),
       Line("loop sec/iter", << loop_sec_per_iter(t2 - t1, it) >>) >>

\* The 'scaling:' line
scaling_line(cpus, t0, t1, t2, n_steps) ==
    Line("scaling", << <<cpus, 1>>, <<nx, 1>>, <<nz, 1>>,
                       <<t1 - t0, 1>>, <<t2 - t1, 1>>,
                       <<t2 - t1, n_steps>>,
                       <<t2 - t1, n_steps * (nx * nz)>>,
                       <<cpus * (t2 - t1), n_steps * (nx * nz)>> >>)

\* What the report prints and the exception it ends with.  With n_steps = 0 the
\* quotient sim_time / n_steps prints a non-finite value when sim_time is a
\* numpy float (np_float) and raises otherwise; main_loop_time / n_steps
\* divides two Python numbers and raises.
report(cpus, t0, t1, t2, it, st, np_float) ==
    LET n_steps == it - 1
        head == report_head(t0, t1, t2, it)
        avg == Line("average dt", << <<st, n_steps>> >>)
    IN  IF n_steps # 0
        THEN [out |-> head \o << avg, Line("header", <<>>),
                                 scaling_line(cpus, t0, t1, t2, n_steps),
                                 Line("rule", <<>>) >>,
              exc |-> "none"]
        ELSE IF np_float
        THEN [out |-> head \o << avg, Line("header", <<>>) >>,
              exc |-> "ZeroDivisionError"]
        ELSE [out |-> head, exc |-> "ZeroDivisionError"]

-----------------------------------------------------------------------------
(* The noise variables while the loop runs, the loop variables while the    *)
(* noise is initialised                                                     *)

NoiseIdle == /\ gshape = <<1, 1>>
             /\ layout = <<>>
             /\ noise = <<>>

-----------------------------------------------------------------------------
(* The script from "Initial timestep" on, for one worker *)

Init ==
    /\ N_TOTAL_CPU \in 1..MaxWorkers
    /\ rank \in 0..(N_TOTAL_CPU - 1)
    /\ niter_arg \in 0..MaxNiterArg
    /\ stop_iteration = niter(niter_arg)
    /\ pc = "while"
    /\ iteration = 0
    /\ sim_time = 0
    /\ stored_dt = CFL.initial_dt
    /\ max_global_freq = 0
    /\ dt = initial_dt
    /\ first_loop = TRUE
    /\ initial_time = 0
    /\ now \in initial_time..(initial_time + MaxTick)
    /\ start_time = <<>>
    /\ end_time = <<>>
    /\ exc = "none"
    /\ loop_state = "Running"
    /\ log_string = <<>>
    /\ out = <<>>
    /\ reported = 0
    /\ NoiseIdle

\* while solver.ok:
WhileTest ==
    /\ pc = "while"
    /\ IF ok(iteration, sim_time, now - initial_time, stop_iteration)
       THEN pc' = "compute_dt" /\ UNCHANGED loop_state
       ELSE pc' = "finally" /\ loop_state' = "StoppedNormally"
    /\ UNCHANGED <<rank, N_TOTAL_CPU, niter_arg, stop_iteration, iteration,
                   sim_time, stored_dt, max_global_freq, dt, first_loop, now,
                   initial_time, start_time, end_time, exc, log_string, out,
                   reported, noise_vars>>

\* dt = CFL.compute_dt()
ComputeDt ==
    /\ pc = "compute_dt"
    /\ \E freq \in (IF iteration = 0 THEN InitialFreqs ELSE Freqs), tie \in BOOLEAN :
          /\ max_global_freq' = freq
          /\ stored_dt' = compute_dt(CFL, stored_dt, iteration, freq, tie)
          /\ dt' = stored_dt'
    /\ pc' = "step"
    /\ UNCHANGED <<rank, N_TOTAL_CPU, niter_arg, stop_iteration, iteration,
                   sim_time, first_loop, now, initial_time, start_time, end_time,
                   exc, loop_state, log_string, out, reported, noise_vars>>

\* dt = CFL.compute_dt() raises
ComputeDtFails ==
    /\ pc = "compute_dt"
    /\ exc' = "SolverError"
    /\ pc' = "except"
    /\ UNCHANGED <<rank, N_TOTAL_CPU, niter_arg, stop_iteration, iteration,
                   sim_time, stored_dt, max_global_freq, dt, first_loop, now,
                   initial_time, start_time, end_time, loop_state, log_string,
                   out, reported, noise_vars>>

\* dt = solver.step(dt); the log record; start_time on the first pass
SolverStep ==
    /\ pc = "step"
    /\ \E actual \in actual_dts(dt), tick \in 0..MaxTick :
          /\ dt' = actual
          /\ sim_time' = sim_time + actual
          /\ now' = now + tick
    /\ iteration' = iteration + 1
    /\ log_string' = <<iteration', sim_time', dt'>>
    /\ IF first_loop
       THEN start_time' = <<now'>> /\ first_loop' = FALSE
       ELSE UNCHANGED <<start_time, first_loop>>
    /\ pc' = "while"
    /\ UNCHANGED <<rank, N_TOTAL_CPU, niter_arg, stop_iteration, stored_dt,
                   max_global_freq, initial_time, end_time, exc, loop_state,
                   out, reported, noise_vars>>

\* dt = solver.step(dt) raises
SolverStepFails ==
    /\ pc = "step"
    /\ \E tick \in 0..MaxTick : now' = now + tick
    /\ exc' = "SolverError"
    /\ pc' = "except"
    /\ UNCHANGED <<rank, N_TOTAL_CPU, niter_arg, stop_iteration, iteration,
                   sim_time, stored_dt, max_global_freq, dt, first_loop,
                   initial_time, start_time, end_time, loop_state, log_string,
                   out, reported, noise_vars>>

\* except: logger.error(...); raise
Except ==
    /\ pc = "except"
    /\ loop_state' = "Failed"
    /\ pc' = "finally"
    /\ UNCHANGED <<rank, N_TOTAL_CPU, niter_arg, stop_iteration, iteration,
                   sim_time, stored_dt, max_global_freq, dt, first_loop, now,
                   initial_time, start_time, end_time, exc, log_string, out,
                   reported, noise_vars>>

\* finally: end_time, the four logger.info lines, the report under
\* "if (domain.distributor.rank==0):".  An exception raised here replaces the
\* one in flight; what is in flight at the end reaches the caller.
Finally ==
    /\ pc = "finally"
    /\ end_time' = <<now>>
    /\ IF start_time = <<>>
       THEN \* 'Run time: %.2f sec' %(end_time-start_time): start_time is unbound
            /\ exc' = "NameError"
            /\ UNCHANGED <<out, reported>>
       ELSE IF rank = 0
       THEN \E np_float \in BOOLEAN :
              LET r == report(N_TOTAL_CPU, initial_time, start_time[1], now,
                              iteration, sim_time, np_float)
              IN  /\ out' = out \o r.out
                  /\ exc' = (IF r.exc = "none" THEN exc ELSE r.exc)
                  /\ reported' = (IF r.exc = "none" THEN reported + 1 ELSE reported)
       ELSE /\ reported' = reported + 1
            /\ UNCHANGED <<out, exc>>
    /\ pc' = "done"
    /\ UNCHANGED <<rank, N_TOTAL_CPU, niter_arg, stop_iteration, iteration,
                   sim_time, stored_dt, max_global_freq, dt, first_loop, now,
                   initial_time, start_time, loop_state, log_string, noise_vars>>

Next ==
    \/ WhileTest
    \/ ComputeDt
    \/ ComputeDtFails
    \/ SolverStep
    \/ SolverStepFails
    \/ Except
    \/ Finally

Spec == Init /\ [][Next]_vars

-----------------------------------------------------------------------------
(* The controller alone: compute_dt called once per iteration, for          *)
(* CFLMaxIter iterations, whatever the solver returns                       *)

InitCFL ==
    /\ N_TOTAL_CPU = 1
    /\ rank = 0
    /\ niter_arg = CFLMaxIter
    /\ stop_iteration = niter(niter_arg)
    /\ pc = "compute_dt"
    /\ iteration = 0
    /\ sim_time = 0
    /\ stored_dt = CFL.initial_dt
    /\ max_global_freq = 0
    /\ dt = initial_dt
    /\ first_loop = TRUE
    /\ initial_time = 0
    /\ now = 0
    /\ start_time = <<>>
    /\ end_time = <<>>
    /\ exc = "none"
    /\ loop_state = "Running"
    /\ log_string = <<>>
    /\ out = <<>>
    /\ reported = 0
    /\ NoiseIdle

\* dt = CFL.compute_dt()
CFLCall ==
    /\ iteration < CFLMaxIter
    /\ ComputeDt

\* solver.step advances solver.iteration, which compute_dt reads for its
\* cadence; nothing else of the step reaches the controller.
CFLAdvance ==
    /\ pc = "step"
    /\ iteration' = iteration + 1
    /\ pc' = "compute_dt"
    /\ UNCHANGED <<rank, N_TOTAL_CPU, niter_arg, stop_iteration, sim_time,
                   stored_dt, max_global_freq, dt, first_loop, now, initial_time,
                   start_time, end_time, exc, loop_state, log_string, out,
                   reported, noise_vars>>

NextCFL ==
    \/ CFLCall
    \/ CFLAdvance

SpecCFL == InitCFL /\ [][NextCFL]_vars

-----------------------------------------------------------------------------
(* RandomFieldInitializer: two runs of the program on the same global shape, *)
(* each with its own partition of the x axis among its workers               *)

\* rand = np.random.RandomState(seed=42)
seed == 42

\* The generator's state after k draws, and its k-th draw (k = 0, 1, ...): a
\* full-period congruential stream stands for the Mersenne twister.
RECURSIVE rand_state(_, _)
rand_state(sd, k) == IF k = 0 THEN sd % 64 ELSE (5 * rand_state(sd, k - 1) + 3) % 64
draw(sd, k) == rand_state(sd, k + 1)

\* rand.standard_normal(shape): the draws fill the array in row-major order
standard_normal(sd, shape) ==
    [i \in 0..(shape[1] - 1) |-> [j \in 0..(shape[2] - 1) |-> draw(sd, i * shape[2] + j)]]

\* The valid partitions of 0..gx-1 among P workers, as cut points: worker r
\* owns the rows cuts[r+1] .. cuts[r+2]-1.
Layouts(gx) ==
    UNION { { c \in [1..(P + 1) -> 0..gx] :
                /\ c[1] = 0
                /\ c[P + 1] = gx
                /\ \A k \in 1..P : c[k] <= c[k + 1] } : P \in 1..MaxWorkers }

\* domain.dist.grid_layout.slices(scales=1) of worker r
slices(cuts, r) == [start |-> cuts[r + 1], stop |-> cuts[r + 2]]

\* The workers of a layout
Ranks(cuts) == 0..(Len(cuts) - 2)

\* The noise drawn over the worker's local shape instead of the global one
noise_drawn_locally(shape, sl) ==
    standard_normal(seed, <<sl.stop - sl.start, shape[2]>>)

\* noise = rand.standard_normal(gshape)[slices]
noise_local(shape, sl) ==
    LET g == standard_normal(seed, shape)
    IN  [li \in 0..(sl.stop - sl.start - 1) |-> g[sl.start + li]]

LoopIdle ==
    /\ N_TOTAL_CPU = 1
    /\ rank = 0
    /\ niter_arg = 0
    /\ stop_iteration = niter(niter_arg)
    /\ pc = "noise"
    /\ iteration = 0
    /\ sim_time = 0
    /\ stored_dt = CFL.initial_dt
    /\ max_global_freq = 0
    /\ dt = initial_dt
    /\ first_loop = TRUE
    /\ initial_time = 0
    /\ now = 0
    /\ start_time = <<>>
    /\ end_time = <<>>
    /\ exc = "none"
    /\ loop_state = "Running"
    /\ log_string = <<>>
    /\ out = <<>>
    /\ reported = 0

InitNoise ==
    /\ LoopIdle
    /\ gshape \in (1..MaxGx) \X (1..MaxGz)
    /\ layout \in Layouts(gshape[1]) \X Layouts(gshape[1])
    /\ noise = [run \in 1..2 |->
                  [r \in Ranks(layout[run]) |-> [set |-> FALSE, g |-> <<>>]]]

\* Worker r of a run executes lines 104-107
InitializeNoise(run, r) ==
    /\ ~ noise[run][r].set
    /\ noise' = [noise EXCEPT ![run][r] =
                    [set |-> TRUE, g |-> noise_local(gshape, slices(layout[run], r))]]
    /\ UNCHANGED <<gshape, layout, loop_vars>>

NextNoise == \E run \in 1..2 : \E r \in Ranks(layout[run]) : InitializeNoise(run, r)

SpecNoise == InitNoise /\ [][NextNoise]_vars

-----------------------------------------------------------------------------
(* Claims *)

\* The worker has left the script's last statement
Done == pc = "done"

\* How many lines with this label were printed
Count(label) == Cardinality({k \in 1..Len(out) : out[k].label = label})

\* The printed quotient q is the finite value a / b
QuotEq(q, a, b) == q[2] # 0 /\ b # 0 /\ q[1] * b = a * q[2]

\* Some printed field is non-finite
NonFinitePrinted ==
    \E k \in 1..Len(out) : \E f \in 1..Len(out[k].fields) : out[k].fields[f][2] = 0

\* C1: on every exit path of the loop (normal stop, or a failure of compute_dt
\* or solver.step on any iteration, the first included) the statistics
\* reporter has run to completion exactly once when the script ends, and
\* never more than once.
C1_ReporterRunsExactlyOnce ==
    /\ reported <= 1
    /\ Done => reported = 1

\* C2: when compute_dt or solver.step fails, the loop is Failed, the reporter
\* completes with the partial statistics (the iteration count printed is the
\* solver's counter at the failure) and the caller receives the original
\* error, not one raised while reporting.
C2_OriginalFailureReachesCaller ==
    (Done /\ loop_state = "Failed") =>
        /\ exc = "SolverError"
        /\ reported = 1
        /\ rank = 0 => \E k \in 1..Len(out) :
                          /\ out[k].label = "iterations"
                          /\ out[k].fields[1] = <<iteration, 1>>

\* C3: with a final iteration count of 1 the reporter completes without an
\* error and prints no infinite or NaN per-iteration metric.
C3_ReporterSafeAtOneIteration ==
    (Done /\ iteration = 1) =>
        /\ reported = 1
        /\ exc # "ZeroDivisionError"
        /\ ~ NonFinitePrinted

\* The loop was left by the wall-time or the simulation-time threshold
OtherStop ==
    \/ now - initial_time >= stop_wall_time
    \/ (sim_time \div DtScale) >= stop_sim_time * 1000

\* C4: with --niter n the loop never performs more than n + 1 iterations,
\* never starts another pass once n + 1 are done, and, when it stops
\* normally with neither the wall-time nor the simulation-time limit
\* reached, has performed exactly n + 1.
C4_ExactlyNPlusOneIterations ==
    /\ iteration <= niter_arg + 1
    /\ pc \in {"compute_dt", "step"} => iteration < niter_arg + 1
    /\ (loop_state = "StoppedNormally" /\ ~ OtherStop) => iteration = niter_arg + 1

C4_Witness ==
    /\ Done
    /\ loop_state = "StoppedNormally"
    /\ ~ OtherStop
    /\ niter_arg = 2
    /\ iteration = 3

\* The worker owning global row i in a run
Owner(run, i) ==
    CHOOSE r \in Ranks(layout[run]) :
        slices(layout[run], r).start <= i /\ i < slices(layout[run], r).stop

\* The noise value a run holds at global index (i, j)
NoiseAt(run, i, j) ==
    noise[run][Owner(run, i)].g[i - slices(layout[run], Owner(run, i)).start][j]

\* C5: for seed 42 and a global shape, the value a worker holds at a global
\* index is the same under any two partitions of the shape among workers
\* (a single worker included).
C5_NoiseIndependentOfPartition ==
    \A i \in 0..(gshape[1] - 1) : \A j \in 0..(gshape[2] - 1) :
        (pc = "noise" /\ noise[1][Owner(1, i)].set /\ noise[2][Owner(2, i)].set)
            => NoiseAt(1, i, j) = NoiseAt(2, i, j)

C5_Witness ==
    /\ pc = "noise"
    /\ gshape = <<3, 2>>
    /\ layout[1] = <<0, 3>>
    /\ layout[2] = <<0, 1, 3>>
    /\ \A run \in 1..2 : \A r \in Ranks(layout[run]) : noise[run][r].set

\* C6: when the script ends, on every exit path, each line of the report has
\* been printed exactly once by the worker of rank 0 and not at all by a
\* worker of another rank.
C6_EachLineOnceOnRankZero ==
    Done => \A label \in ReportLabels : Count(label) = (IF rank = 0 THEN 1 ELSE 0)

\* C7: the step size solver.step returns is the one recorded for the
\* iteration and added to the simulation time, and it is the previous step
\* size the next compute_dt rate-limits against when it updates.
C7_ReturnedDtIsUsed ==
    [][/\ (pc = "step" /\ pc' = "while") =>
              /\ sim_time' = sim_time + dt'
              /\ log_string'[3] = dt'
       /\ (pc = "compute_dt" /\ pc' = "step" /\ stored_dt' # stored_dt) =>
              /\ 2 * dt' >= dt
              /\ 2 * dt' <= 3 * dt]_vars

\* C8: whenever compute_dt updates the step size, the new one lies in
\* [0.5*prev_dt, 1.5*prev_dt]; and whatever compute_dt returns, updated or
\* held, is at most 0.5, starting from 1e-3.
C8_RateLimitAndCap ==
    [][(pc = "compute_dt" /\ pc' = "step") =>
          /\ stored_dt' # stored_dt =>
                /\ 2 * stored_dt' >= stored_dt
                /\ 2 * stored_dt' <= 3 * stored_dt
          /\ dt' = stored_dt'
          /\ 2 * dt' <= 1000 * DtScale]_vars

C8_Witness ==
    /\ pc = "step"
    /\ iteration = 16
    /\ 2 * dt = 1000 * DtScale

\* C9: with two iterations or more, the duration per iteration printed as
\* ' loop sec/iter:' and the one in the 'scaling:' line both equal
\* (end_time - start_time) / (solver.iteration - 1).
C9_PerIterationDuration ==
    (Done /\ iteration >= 2) =>
        \A k \in 1..Len(out) :
            /\ out[k].label = "loop sec/iter" =>
                  QuotEq(out[k].fields[1], end_time[1] - start_time[1], iteration - 1)
            /\ out[k].label = "scaling" =>
                  QuotEq(out[k].fields[6], end_time[1] - start_time[1], iteration - 1)

\* C10 as stated: when all velocities are zero (as at the first iteration)
\* compute_dt returns max_dt.
C10_ZeroVelocityGivesMaxDt ==
    (pc = "step" /\ max_global_freq = 0) => dt = max_dt

\* C10 amended: when all velocities are zero, compute_dt returns
\* min(max_dt, 1.5*prev_dt), or keeps prev_dt when that value is within the
\* 5% threshold of it; the result is positive and at most max_dt.
C10_ZeroVelocityGivesLargestAllowed ==
    [][(pc = "compute_dt" /\ pc' = "step" /\ max_global_freq' = 0) =>
          LET largest == Min(500 * DtScale, (3 * stored_dt) \div 2)
          IN  /\ dt' > 0
              /\ dt' <= 500 * DtScale
              /\ \/ dt' = largest
                 \/ /\ dt' = stored_dt
                    /\ 20 * (largest - stored_dt) <= stored_dt]_vars

C10_Witness ==
    /\ pc = "step"
    /\ iteration = 0
    /\ max_global_freq = 0
    /\ 2 * dt = 3 * DtScale

=============================================================================
